---- MODULE Spec2Model ----
(***************************************************************************)
(* A model of dsnet/file-server: the request dispatcher (Server.ServeHTTP), *)
(* its path normalization, the hide / deny / index pattern checks, the     *)
(* directory enumerator and the content delivery, over a rooted file       *)
(* system.                                                                 *)
(*                                                                         *)
(* Strings are sequences of one-character strings: "/b/a" is               *)
(* <<"/", "b", "/", "a">>.                                                 *)
(***************************************************************************)
EXTENDS Integers, Sequences, FiniteSets, TLC

VARIABLES
    root,       \* Server.root: the served tree, clean relative name -> kind
    hideRx,     \* Server.hideRx
    denyRx,     \* Server.denyRx
    indexRx,    \* Server.indexRx
    req,        \* the request being served: raw URL path and raw query
    resp,       \* what the handler wrote for req
    nraw,       \* normalizer run: the raw path given
    nout,       \* normalizer run: the paths produced so far, one per application
    excludeRx,  \* first version of the program: the -exclude pattern
    index,      \* first version of the program: the -index file name
    fileInfos,  \* listing page: the rows, in the order shown
    order,      \* listing page: +1 ascending, -1 descending
    orderBy,    \* listing page: the comparison the rows are sorted by
    click,      \* listing page: the last reorderFiles call, its argument and parity
    fileList,   \* listing page: the rows of the table, name and checkbox
    numSelectedFiles,
    selectAllFilesChecked,      \* listing page: the header checkbox
    fmtIn,      \* formatter run: the value given
    fmtOut,     \* formatter run: the texts produced
    disk,       \* a Dir filesystem: clean relative name -> directory or content
    fsOp,       \* a Dir filesystem: the last operation and what it returned
    opsList,    \* operations pane: the rows shown, by operation, in order
    ops,        \* operations pane: each operation started, its row and closure
    numPendingOperations,
    numSelectedOperations,
    numFinishedOperations,
    selectAllOperationsChecked, \* operations pane: the header checkbox
    operationsDisplay,          \* operations pane: shown ("") or "none"
    paneOp,     \* operations pane: the last call or click
    hops        \* a client following redirects: the redirects followed so far

vars == <<root, hideRx, denyRx, indexRx, req, resp, nraw, nout,
          excludeRx, index, fileInfos, order, orderBy, click, fileList,
          numSelectedFiles, selectAllFilesChecked,
          fmtIn, fmtOut, disk, fsOp, opsList, ops, numPendingOperations,
          numSelectedOperations, numFinishedOperations,
          selectAllOperationsChecked, operationsDisplay, paneOp, hops>>

(***************************************************************************)
(* Bounds                                                                  *)
(***************************************************************************)
\* longest raw path of a request to the server
MaxReqLen == 4
\* longest raw path given to the normalizer alone
MaxPathLen == 5

Chars == {"/", ".", "a", "b"}

Strings(n) == UNION {[1..k -> Chars] : k \in 0..n}

(***************************************************************************)
(* strings, path, path/filepath, io/fs                                     *)
(***************************************************************************)
HasSuffix(s, suf) ==
    /\ Len(s) >= Len(suf)
    /\ SubSeq(s, Len(s) - Len(suf) + 1, Len(s)) = suf

HasPrefix(s, pre) ==
    /\ Len(s) >= Len(pre)
    /\ SubSeq(s, 1, Len(pre)) = pre

TrimPrefix(s, pre) ==
    IF HasPrefix(s, pre) THEN SubSeq(s, Len(pre) + 1, Len(s)) ELSE s

\* strings.Split(s, "/"): the segments between the slashes, empty ones kept
RECURSIVE Split(_)
Split(s) ==
    IF \A i \in 1..Len(s) : s[i] # "/"
    THEN <<s>>
    ELSE LET i == CHOOSE k \in 1..Len(s) :
                      s[k] = "/" /\ \A j \in 1..(k - 1) : s[j] # "/"
         IN <<SubSeq(s, 1, i - 1)>> \o Split(SubSeq(s, i + 1, Len(s)))

\* strings.Join(segs, "/")
RECURSIVE JoinSlash(_)
JoinSlash(segs) ==
    IF segs = <<>> THEN <<>>
    ELSE IF Len(segs) = 1 THEN segs[1]
    ELSE segs[1] \o <<"/">> \o JoinSlash(Tail(segs))

\* The element loop of path.Clean: out is the output built so far, as a
\* list of elements.  "." and empty elements are dropped; ".." removes the
\* last element that is not itself "..", is dropped at the root of a rooted
\* path, and is kept at the front of a relative one.
RECURSIVE CleanElems(_, _, _)
CleanElems(segs, out, rooted) ==
    IF segs = <<>> THEN out
    ELSE LET s == Head(segs)
             rest == Tail(segs)
         IN IF s = <<>> \/ s = <<".">>
            THEN CleanElems(rest, out, rooted)
            ELSE IF s = <<".", ".">>
            THEN IF out # <<>> /\ out[Len(out)] # <<".", ".">>
                 THEN CleanElems(rest, SubSeq(out, 1, Len(out) - 1), rooted)
                 ELSE IF ~rooted
                 THEN CleanElems(rest, Append(out, s), rooted)
                 ELSE CleanElems(rest, out, rooted)
            ELSE CleanElems(rest, Append(out, s), rooted)

\* path.Clean
Clean(p) ==
    IF p = <<>> THEN <<".">>
    ELSE LET rooted == p[1] = "/"
             out == CleanElems(Split(p), <<>>, rooted)
         IN IF rooted THEN <<"/">> \o JoinSlash(out)
            ELSE IF out = <<>> THEN <<".">>
            ELSE JoinSlash(out)

\* path.Base
RECURSIVE TrimSlashes(_)
TrimSlashes(p) ==
    IF p # <<>> /\ p[Len(p)] = "/" THEN TrimSlashes(SubSeq(p, 1, Len(p) - 1)) ELSE p

Base(p) ==
    IF p = <<>> THEN <<".">>
    ELSE LET t == TrimSlashes(p)
             segs == Split(t)
             b == segs[Len(segs)]
         IN IF b = <<>> THEN <<"/">> ELSE b

\* filepath.Join(a, b) for two non-empty elements
Join(a, b) == Clean(a \o <<"/">> \o b)

\* fs.ValidPath
ValidPath(name) ==
    \/ name = <<".">>
    \/ \A i \in 1..Len(Split(name)) :
           Split(name)[i] \notin {<<>>, <<".">>, <<".", ".">>}


(***************************************************************************)
(* Path normalization: the head of Server.ServeHTTP                        *)
(***************************************************************************)
\* The handler of the first version: clean, prefix "/", no slash kept.
NormalizeDropSlash(p) == <<"/">> \o TrimPrefix(Clean(p), <<"/">>)

\* hadSlashSuffix / path.Clean / TrimPrefix / re-append
Normalize(p) ==
    LET hadSlashSuffix == HasSuffix(p, <<"/">>)
        q == <<"/">> \o TrimPrefix(Clean(p), <<"/">>)
    IN IF ~HasSuffix(q, <<"/">>) /\ hadSlashSuffix THEN q \o <<"/">> ELSE q

(***************************************************************************)
(* Patterns.  A compiled pattern is Nil (flag left empty) or a literal     *)
(* with optional ^ and $ anchors, the regular expressions ^?lit$?.         *)
(***************************************************************************)
Nil == [nil |-> TRUE]

Rx(lit, atStart, atEnd) == [lit |-> lit, atStart |-> atStart, atEnd |-> atEnd]

\* (*regexp.Regexp).MatchString for the patterns above
MatchString(r, s) ==
    \E i \in 1..(Len(s) - Len(r.lit) + 1) :
        /\ SubSeq(s, i, i + Len(r.lit) - 1) = r.lit
        /\ r.atStart => i = 1
        /\ r.atEnd => i + Len(r.lit) - 1 = Len(s)

regexpMatch(r, s) == r # Nil /\ MatchString(r, s)

\* "/a$", "^/b/", "^/b/a$"
Patterns ==
    { Nil,
      Rx(<<"/", "a">>, FALSE, TRUE),
      Rx(<<"/", "b", "/">>, TRUE, FALSE),
      Rx(<<"/", "b", "/", "a">>, TRUE, TRUE) }

(***************************************************************************)
(* The served tree.  A name is a clean slash-separated path relative to    *)
(* the root; "." is the root directory itself.  Kinds: a regular file, a   *)
(* directory, a symbolic link to a regular file, a symbolic link whose     *)
(* target cannot be statted.                                               *)
(***************************************************************************)
Kinds == {"file", "dir", "link", "broken"}

IsSymlink(kind) == kind \in {"link", "broken"}

IsDir(kind) == kind = "dir"

nA == <<"a">>
nB == <<"b">>
nAA == <<"a", "/", "a">>
nAB == <<"a", "/", "b">>
nBA == <<"b", "/", "a">>
nBB == <<"b", "/", "b">>

Trees ==
    { (nA :> "file") @@ (nB :> "dir") @@ (nBA :> "file") @@ (nBB :> "link"),
      (nA :> "dir") @@ (nAA :> "dir") @@ (nAB :> "broken") @@ (nB :> "dir") }

\* the directory the tree is rooted at, the -root flag
RootDir == <<"/", "r">>

\* the names of the entries of directory dirname
Children(dirname) ==
    { n \in DOMAIN root :
        IF dirname = <<".">>
        THEN \A i \in 1..Len(n) : n[i] # "/"
        ELSE /\ HasPrefix(n, dirname \o <<"/">>)
             /\ \A i \in (Len(dirname) + 2)..Len(n) : n[i] # "/" }

\* os.Open / os.Stat on the entry called name under the root, following
\* symbolic links: ENOENT when an element is missing or a dangling link,
\* ENOTDIR when an element before the last is not a directory.
RECURSIVE Walk(_, _)
Walk(segs, k) ==
    LET n == JoinSlash(SubSeq(segs, 1, k))
    IN IF n \notin DOMAIN root \/ root[n] = "broken"
       THEN [err |-> "ErrNotExist", kind |-> "none"]
       ELSE IF k = Len(segs)
       THEN [err |-> "nil", kind |-> IF root[n] = "link" THEN "file" ELSE root[n]]
       ELSE IF root[n] # "dir"
       THEN [err |-> "ENOTDIR", kind |-> "none"]
       ELSE Walk(segs, k + 1)

osStat(name) ==
    IF name = <<".">> THEN [err |-> "nil", kind |-> "dir"]
    ELSE Walk(Split(name), 1)

(***************************************************************************)
(* The rooted filesystem: dirFS.join, dirFS.Open, dirFS.Stat               *)
(***************************************************************************)
joinUnchecked(name) == [err |-> "nil", fullname |-> Join(RootDir, name)]

join(name) ==
    IF ~ValidPath(name)
    THEN [err |-> "ErrInvalid", fullname |-> <<>>]
    ELSE [err |-> "nil", fullname |-> Join(RootDir, name)]

\* The result carries the names handed to the filesystem and the full
\* names that reached the operating system.
Open(name) ==
    LET j == join(name)
    IN IF j.err # "nil"
       THEN [err |-> j.err, kind |-> "none", oscalls |-> <<>>]
       ELSE [err |-> osStat(name).err, kind |-> osStat(name).kind,
             oscalls |-> <<j.fullname>>]

Stat(name) ==
    LET j == join(name)
    IN IF j.err # "nil"
       THEN [err |-> j.err, kind |-> "none", oscalls |-> <<>>]
       ELSE [err |-> osStat(name).err, kind |-> osStat(name).kind,
             oscalls |-> <<j.fullname>>]


(***************************************************************************)
(* Responses                                                               *)
(***************************************************************************)
NoReq == [raw |-> <<>>, query |-> <<>>, none |-> TRUE]

\* path: r.URL.Path when the response was written; names: every name handed
\* to the root filesystem; oscalls: every full name that reached the
\* operating system; fes: the entries as ReadDir returned them; file: the
\* entry whose handle was given to http.ServeContent; allowRedirect: the
\* flag serveFile was called with; opened: the entries whose handle Open
\* returned; deferred: the handles with a deferred Close; closed: the handles
\* closed when the handler returned.
NoResp ==
    [status |-> 0, kind |-> "none", err |-> "nil", location |-> <<>>,
     rows |-> <<>>, file |-> <<>>, path |-> <<>>, names |-> <<>>,
     oscalls |-> <<>>, fes |-> <<>>, allowRedirect |-> TRUE,
     opened |-> <<>>, deferred |-> <<>>, closed |-> <<>>]

StatusOK == 200
StatusMovedPermanently == 301
StatusForbidden == 403
StatusNotFound == 404
StatusInternalServerError == 500

\* what http.ServeContent can answer when the handle is a directory's
DirHandleStatuses == {StatusOK, StatusInternalServerError}

\* the responses a handler run that computed w can have written
Outcomes(w) ==
    IF w.kind = "dirhandle"
    THEN {[w EXCEPT !.status = st] : st \in DirHandleStatuses}
    ELSE {w}

\* an Open whose handle is never closed
openedNoDefer(w, name) == [w EXCEPT !.opened = Append(@, name)]

\* f, err := Open(name) without error, followed by defer f.Close()
openedWithDefer(w, name) ==
    [w EXCEPT !.opened = Append(@, name), !.deferred = Append(@, name)]

\* the deferred calls run when the handler returns, the last one first
runDeferred(w) ==
    [w EXCEPT !.closed =
        [i \in 1..Len(w.deferred) |-> w.deferred[Len(w.deferred) + 1 - i]]]

httpError(w, err) ==
    LET code == IF err = "ErrNotExist" THEN StatusNotFound
                ELSE IF err = "ErrPermission" THEN StatusForbidden
                ELSE StatusInternalServerError
    IN [w EXCEPT !.status = code, !.kind = "error", !.err = err]

relativeRedirect(w, q, urlPath) ==
    [w EXCEPT !.status = StatusMovedPermanently, !.kind = "redirect",
              !.location = IF q # <<>> THEN urlPath \o <<"?">> \o q ELSE urlPath]

\* http.ServeContent on the handle of the entry called name.  Given a
\* directory's handle its status is left open here: see Outcomes.
ServeContent(w, name, kind, allowRedirect) ==
    IF kind = "file"
    THEN [w EXCEPT !.status = StatusOK, !.kind = "content", !.file = name,
                   !.allowRedirect = allowRedirect]
    ELSE [w EXCEPT !.kind = "dirhandle", !.file = name,
                   !.allowRedirect = allowRedirect]

serveFileNoRedirect(w, q, name, kind, allowRedirect) ==
    ServeContent(w, name, kind, allowRedirect)

serveFileAlwaysRedirect(w, q, name, kind, allowRedirect) ==
    IF regexpMatch(indexRx, w.path)
    THEN relativeRedirect(w, q, <<".", "/">>)
    ELSE ServeContent(w, name, kind, allowRedirect)

serveFile(w, q, name, kind, allowRedirect) ==
    IF allowRedirect /\ regexpMatch(indexRx, w.path)
    THEN relativeRedirect(w, q, <<".", "/">>)
    ELSE ServeContent(w, name, kind, allowRedirect)

\* "Check whether to hide ... this file"
isHiddenHideOnly(urlPath) == regexpMatch(hideRx, urlPath)

isHidden(urlPath) == regexpMatch(hideRx, urlPath) \/ regexpMatch(denyRx, urlPath)

\* the string the patterns are matched against for entry fe of the listed
\* directory: r.URL.Path + "/" + fi.Name()
entryURLPath(path, fe) == path \o <<"/">> \o Base(fe)

\* the name the entry is statted and opened under
entryName(path, fe) == Clean(<<".", "/">> \o path \o <<"/">> \o Base(fe))

\* The loop over fes, from index i on; w.rows is fis.
RECURSIVE serveDirectoryFrom(_, _, _, _)
serveDirectoryFrom(w, q, fes, i) ==
    IF i > Len(fes)
    THEN [w EXCEPT !.status = StatusOK, !.kind = "listing"]
    ELSE
      LET fe      == fes[i]
          symlink == IsSymlink(root[fe])
          st      == Stat(entryName(w.path, fe))
          w1      == IF symlink
                     THEN [w EXCEPT !.names = Append(@, entryName(w.path, fe)),
                                    !.oscalls = @ \o st.oscalls]
                     ELSE w
          fiNil   == symlink /\ st.err # "nil"
          fiKind  == IF symlink THEN st.kind ELSE root[fe]
          urlPath == entryURLPath(w.path, fe)
      IN IF fiNil
         THEN serveDirectoryFrom(w1, q, fes, i + 1)
         ELSE IF isHidden(urlPath)
         THEN serveDirectoryFrom(w1, q, fes, i + 1)
         ELSE IF regexpMatch(indexRx, urlPath)
         THEN LET f  == Open(entryName(w.path, fe))
                  \* fis is dropped here: none of it is written
                  w2 == [w1 EXCEPT !.names = Append(@, entryName(w.path, fe)),
                                   !.oscalls = @ \o f.oscalls,
                                   !.rows = <<>>]
              IN IF f.err # "nil"
                 THEN httpError(w2, f.err)
                 ELSE serveFile(
                          openedWithDefer([w2 EXCEPT !.path = urlPath], fe),
                          q, fe, f.kind, FALSE)
         ELSE serveDirectoryFrom(
                  [w1 EXCEPT !.rows = Append(@,
                      [Name |-> IF IsDir(fiKind)
                                THEN Base(fe) \o <<"/">> ELSE Base(fe)])],
                  q, fes, i + 1)

\* the loop run over the entries from the last to the first
serveDirectoryLastFirst(w, q, fes) ==
    serveDirectoryFrom([w EXCEPT !.fes = fes], q,
                       [i \in 1..Len(fes) |-> fes[Len(fes) + 1 - i]], 1)

\* fes: the entries in the order ReadDir returned them
serveDirectory(w, q, fes) ==
    serveDirectoryFrom([w EXCEPT !.fes = fes], q, fes, 1)

ServeHTTP(raw, q, fes) ==
    LET p    == Normalize(raw)
        name == Join(<<".">>, p)
        f    == Open(name)
        w0   == [NoResp EXCEPT !.path = p, !.names = <<name>>,
                               !.oscalls = f.oscalls]
        w    == openedWithDefer(w0, name)
    IN runDeferred(
         IF f.err # "nil" THEN httpError(w0, f.err)
         ELSE IF IsDir(f.kind) # HasSuffix(p, <<"/">>)
         THEN IF IsDir(f.kind)
              THEN relativeRedirect(w, q, Base(p) \o <<"/">>)
              ELSE relativeRedirect(w, q, <<".", ".", "/">> \o Base(p))
         ELSE IF regexpMatch(denyRx, p) THEN httpError(w, "ErrPermission")
         ELSE IF IsDir(f.kind)
         THEN serveDirectory(w, q, fes)
         ELSE serveFile(w, q, name, f.kind, TRUE))

(***************************************************************************)
(* The server: one handler invocation per request                          *)
(***************************************************************************)
Queries == {<<>>, <<"q">>}

Perms(S) ==
    { s \in [1..Cardinality(S) -> S] :
        \A i, j \in 1..Cardinality(S) : i # j => s[i] # s[j] }

\* the orders ReadDir may return the entries of the requested directory in
ReadDir(raw) ==
    LET name == Join(<<".">>, Normalize(raw))
    IN IF Open(name).err = "nil" /\ IsDir(Open(name).kind)
       THEN Perms(Children(name))
       ELSE {<<>>}

NormIdle == /\ nraw = <<>>
            /\ nout = <<>>

\* the first version of the program is not running
FirstIdle == /\ excludeRx = Nil
             /\ index = <<>>

\* the listing page is not loaded
ClientIdle == /\ fileInfos = <<>>
              /\ order = 0
              /\ orderBy = "none"
              /\ click = [arg |-> "none", n |-> 0]
              /\ fileList = <<>>
              /\ numSelectedFiles = 0
              /\ selectAllFilesChecked = FALSE

FormatIdle == /\ fmtIn = <<>>
              /\ fmtOut = <<>>

DiskIdle == /\ disk = <<>>
            /\ fsOp = <<>>

clientVars == <<fileInfos, order, orderBy, click, fileList, numSelectedFiles,
                selectAllFilesChecked>>

formatVars == <<fmtIn, fmtOut>>

diskVars == <<disk, fsOp>>

paneVars == <<opsList, ops, numPendingOperations, numSelectedOperations,
              numFinishedOperations, selectAllOperationsChecked,
              operationsDisplay, paneOp>>

\* no client is following a redirect
FollowIdle == hops = 0

\* the page with the operations pane is not loaded
PaneIdle == /\ opsList = <<>>
            /\ ops = <<>>
            /\ numPendingOperations = 0
            /\ numSelectedOperations = 0
            /\ numFinishedOperations = 0
            /\ selectAllOperationsChecked = FALSE
            /\ operationsDisplay = "unloaded"
            /\ paneOp = <<>>

\* the variables the Server's handler never touches
notServer == <<nraw, nout, excludeRx, index, clientVars, formatVars, diskVars, paneVars, hops>>

Init ==
    /\ root \in Trees
    /\ hideRx \in Patterns
    /\ denyRx \in Patterns
    /\ indexRx \in Patterns
    /\ req = NoReq
    /\ resp = NoResp
    /\ NormIdle
    /\ FirstIdle
    /\ ClientIdle
    /\ FormatIdle
    /\ DiskIdle
    /\ PaneIdle
    /\ FollowIdle

Request ==
    /\ req = NoReq
    /\ \E raw \in Strings(MaxReqLen), q \in Queries :
         /\ req' = [raw |-> raw, query |-> q, none |-> FALSE]
         /\ \E fes \in ReadDir(raw) :
              resp' \in Outcomes(ServeHTTP(raw, q, fes))
    /\ UNCHANGED <<root, hideRx, denyRx, indexRx, notServer>>

\* the handler has returned; the server waits for the next request
Return ==
    /\ req # NoReq
    /\ req' = NoReq
    /\ resp' = NoResp
    /\ UNCHANGED <<root, hideRx, denyRx, indexRx, notServer>>

Next == Request \/ Return

Spec == Init /\ [][Next]_vars

(***************************************************************************)
(* The normalizer alone, applied to a raw path and again to its result     *)
(***************************************************************************)
ServerIdle ==
    /\ root = [n \in {} |-> "file"]
    /\ hideRx = Nil
    /\ denyRx = Nil
    /\ indexRx = Nil
    /\ req = NoReq
    /\ resp = NoResp
    /\ FirstIdle

NormInit ==
    /\ ServerIdle
    /\ ClientIdle
    /\ FormatIdle
    /\ DiskIdle
    /\ PaneIdle
    /\ FollowIdle
    /\ nraw \in Strings(MaxPathLen)
    /\ nout = <<>>

NormalizeStep ==
    /\ Len(nout) < 2
    /\ nout' = Append(nout, Normalize(IF nout = <<>> THEN nraw ELSE nout[Len(nout)]))
    /\ UNCHANGED <<root, hideRx, denyRx, indexRx, req, resp, nraw,
                 excludeRx, index, clientVars, formatVars, diskVars, paneVars, hops>>

NormNext == NormalizeStep

SpecNorm == NormInit /\ [][NormNext]_vars


(***************************************************************************)
(* What a client does with a Location header: RFC 3986 section 5.2,        *)
(* resolving a relative-path reference against the URL it requested.       *)
(***************************************************************************)
\* the part of a Location before "?", and the part after it
LocationPath(loc) ==
    IF \E i \in 1..Len(loc) : loc[i] = "?"
    THEN SubSeq(loc, 1, (CHOOSE i \in 1..Len(loc) :
                            loc[i] = "?" /\ \A j \in 1..(i - 1) : loc[j] # "?") - 1)
    ELSE loc

LocationQuery(loc) ==
    IF \E i \in 1..Len(loc) : loc[i] = "?"
    THEN SubSeq(loc, (CHOOSE i \in 1..Len(loc) :
                         loc[i] = "?" /\ \A j \in 1..(i - 1) : loc[j] # "?") + 1,
                Len(loc))
    ELSE <<>>

\* remove_dot_segments over the segments after the leading "/": an empty
\* segment is kept, "." is dropped, ".." drops the segment before it, and
\* either of them in last place leaves a trailing "/".
RECURSIVE RemoveDotSegments(_, _)
RemoveDotSegments(segs, out) ==
    IF segs = <<>> THEN out
    ELSE LET s    == Head(segs)
             last == Len(segs) = 1
             kept == IF s = <<".", ".">> /\ out # <<>>
                     THEN SubSeq(out, 1, Len(out) - 1)
                     ELSE IF s \in {<<".">>, <<".", ".">>} THEN out
                     ELSE Append(out, s)
         IN RemoveDotSegments(Tail(segs),
                IF last /\ s \in {<<".">>, <<".", ".">>}
                THEN Append(kept, <<>>) ELSE kept)

\* base: an absolute path; ref: a relative-path reference without query
Resolve(base, ref) ==
    LET lastSlash == CHOOSE i \in 1..Len(base) :
                         base[i] = "/" /\ \A j \in (i + 1)..Len(base) : base[j] # "/"
        merged == SubSeq(base, 1, lastSlash) \o ref
    IN <<"/">> \o JoinSlash(RemoveDotSegments(Tail(Split(merged)), <<>>))

(***************************************************************************)
(* Properties of the server                                                *)
(***************************************************************************)
Served == req # NoReq

\* the normalized request path, and the name it is opened under
ReqPath == Normalize(req.raw)
ReqName == Join(<<".">>, ReqPath)

ReqIsFile == Open(ReqName).err = "nil" /\ Open(ReqName).kind = "file"
ReqIsDir == Open(ReqName).err = "nil" /\ Open(ReqName).kind = "dir"

\* C1: every request whose normalized path matches the deny pattern is
\* answered 403 Forbidden, whether or not an entry exists at that path.
C1_DeniedIsForbidden ==
    (Served /\ regexpMatch(denyRx, ReqPath)) => resp.status = StatusForbidden

\* the row a listing shows for entry fe
RowName(fe) ==
    IF Open(fe).kind = "dir" THEN Base(fe) \o <<"/">> ELSE Base(fe)

RawIsRooted == req.raw # <<>> /\ req.raw[1] = "/"

\* the request a client makes after a redirect
RedirectTarget == Resolve(req.raw, LocationPath(resp.location))

\* following the redirect just answered can deliver the bytes of entry name
RedirectDelivers(name) ==
    /\ resp.kind = "redirect"
    /\ \E fes \in ReadDir(RedirectTarget) :
          LET r2 == ServeHTTP(RedirectTarget, LocationQuery(resp.location), fes)
          IN r2.kind = "content" /\ r2.file = name

\* C3: hide never affects reachability: a request for an existing file
\* whose normalized path matches hide but not deny reaches the file's
\* content, directly or through the redirect it is answered with.
C3_HiddenStillReachable ==
    (/\ Served
     /\ RawIsRooted
     /\ ReqIsFile
     /\ ~HasSuffix(ReqPath, <<"/">>)
     /\ regexpMatch(hideRx, ReqPath)
     /\ ~regexpMatch(denyRx, ReqPath))
    => \/ resp.kind = "content" /\ resp.file = ReqName
       \/ RedirectDelivers(ReqName)

\* entry e of the requested directory matches the index pattern on the
\* string the listing tests
IndexEntry(e) == regexpMatch(indexRx, ReqPath \o <<"/">> \o Base(e))

\* entry e can be statted, is neither hidden nor denied, and matches index
Eligible(e) ==
    /\ Open(e).err = "nil"
    /\ ~regexpMatch(hideRx, ReqPath \o <<"/">> \o Base(e))
    /\ ~regexpMatch(denyRx, ReqPath \o <<"/">> \o Base(e))
    /\ IndexEntry(e)

WithQuery(urlPath) ==
    IF req.query # <<>> THEN urlPath \o <<"?">> \o req.query ELSE urlPath

\* C5 as stated: a request, by its own path, for an existing file whose
\* normalized path matches the index pattern is answered 301 to "./", query
\* preserved.
C5_IndexFileRedirects ==
    (/\ Served
     /\ ReqIsFile
     /\ ~HasSuffix(ReqPath, <<"/">>)
     /\ regexpMatch(indexRx, ReqPath))
    => /\ resp.status = StatusMovedPermanently
       /\ resp.location = WithQuery(<<".", "/">>)

\* C5, amended: a request, by its own path, for an existing file whose
\* normalized path matches the index pattern and does not match deny is
\* answered 301 to "./", query preserved; and bytes of a file whose own path
\* matches index are delivered only by the directory's short-circuit
\* (allowRedirect = false).
C5_UndeniedIndexFileRedirects ==
    /\ (/\ Served
        /\ ReqIsFile
        /\ ~HasSuffix(ReqPath, <<"/">>)
        /\ ~regexpMatch(denyRx, ReqPath)
        /\ regexpMatch(indexRx, ReqPath))
       => /\ resp.status = StatusMovedPermanently
          /\ resp.kind = "redirect"
          /\ resp.location = WithQuery(<<".", "/">>)
    /\ (/\ Served
        /\ resp.kind = "content"
        /\ regexpMatch(indexRx, <<"/">> \o resp.file))
       => resp.allowRedirect = FALSE

\* an index file requested by name with a query, answered "./?q"
C5_Witness ==
    /\ Served
    /\ ReqIsFile
    /\ regexpMatch(indexRx, ReqPath)
    /\ req.query = <<"q">>
    /\ resp.location = <<".", "/", "?", "q">>

\* the raw path has no "." or ".." segment: clients remove them before
\* sending (RFC 3986 section 6.2.2.3)
RawHasNoDotSegment ==
    \A i \in 1..Len(Split(req.raw)) :
        Split(req.raw)[i] \notin {<<".">>, <<".", ".">>}

\* C6: a directory requested without a trailing slash is answered 301 to a
\* Location that resolves, against the requested URL, to the same path plus
\* "/"; a file requested with a trailing slash, to the same path without
\* it; the query is kept.
C6_SlashRedirectResolves ==
    (/\ Served
     /\ RawIsRooted
     /\ RawHasNoDotSegment
     /\ Open(ReqName).err = "nil"
     /\ ReqIsDir # HasSuffix(ReqPath, <<"/">>))
    => /\ resp.status = StatusMovedPermanently
       /\ LocationQuery(resp.location) = req.query
       /\ Normalize(RedirectTarget) =
              IF ReqIsDir THEN ReqPath \o <<"/">>
              ELSE SubSeq(ReqPath, 1, Len(ReqPath) - 1)

\* full is RootDir or lies beneath it
UnderRoot(full) == full = RootDir \/ HasPrefix(full, RootDir \o <<"/">>)

\* C10: no request addresses anything outside the root: every name handed
\* to the root filesystem is a valid relative path without a ".." element,
\* or it is rejected with an error and nothing is accessed; every full name
\* that reaches the operating system lies under the root.
C10_NoEscapeFromRoot ==
    Served =>
        /\ \A i \in 1..Len(resp.names) :
              \/ /\ ValidPath(resp.names[i])
                 /\ \A k \in 1..Len(Split(resp.names[i])) :
                        Split(resp.names[i])[k] # <<".", ".">>
              \/ /\ resp.kind = "error"
                 /\ resp.err = "ErrInvalid"
                 /\ resp.oscalls = <<>>
        /\ \A i \in 1..Len(resp.oscalls) : UnderRoot(resp.oscalls[i])

\* a request whose name is ".." or begins with "../", rejected unopened
C10_Witness ==
    /\ Served
    /\ HasPrefix(resp.names[1], <<".", ".">>)
    /\ resp.err = "ErrInvalid"
    /\ resp.status = StatusInternalServerError
    /\ resp.oscalls = <<>>

(***************************************************************************)
(* Properties of the normalizer                                            *)
(***************************************************************************)
\* C7: normalizing an already normalized path returns the same path.
C7_NormalizeIdempotent == Len(nout) = 2 => nout[2] = nout[1]

\* s is made only of ".." segments
AllDotDot(s) ==
    /\ s # <<>>
    /\ \A i \in 1..Len(Split(s)) : Split(s)[i] = <<".", ".">>

\* C8: the normalized path begins with "/" and has no "." or ".." segment;
\* the empty path and a path of ".." segments alone normalize to "/".
C8_NormalizedIsCleanAbsolute ==
    Len(nout) >= 1 =>
        /\ nout[1] # <<>> /\ nout[1][1] = "/"
        /\ \A i \in 1..Len(Split(nout[1])) :
               Split(nout[1])[i] \notin {<<".">>, <<".", ".">>}
        /\ (nraw = <<>> \/ AllDotDot(nraw)) => nout[1] = <<"/">>

\* C9 as stated: the normalized path ends with "/" exactly when the raw
\* path did.
C9_SlashIffRawSlash ==
    Len(nout) >= 1 => (HasSuffix(nout[1], <<"/">>) <=> HasSuffix(nraw, <<"/">>))

\* C9, amended: the normalized path ends with "/" exactly when the raw path
\* did or the path cleans to the root "/".
C9_SlashIffRawSlashOrRoot ==
    Len(nout) >= 1 =>
        (HasSuffix(nout[1], <<"/">>) <=>
             (HasSuffix(nraw, <<"/">>) \/ Clean(nraw) = <<"/">>))

\* a trailing slash that cleaning removed and normalization put back
C9_Witness ==
    /\ Len(nout) >= 1
    /\ HasSuffix(nraw, <<"/">>)
    /\ ~HasSuffix(Clean(nraw), <<"/">>)
    /\ HasSuffix(nout[1], <<"/">>)

\* ---------------------------------------------------------------------
\* C11: filesystem errors are translated one-to-one into HTTP statuses
\* at the dispatcher: NotExist gives 404, PermissionDenied gives 403,
\* Invalid gives 400 and every other failure gives 500.
C11_ErrorsMapOneToOne ==
    (Served /\ resp.kind = "error") =>
        resp.status = CASE resp.err = "ErrNotExist" -> StatusNotFound
                        [] resp.err = "ErrPermission" -> StatusForbidden
                        [] resp.err = "ErrInvalid" -> 400
                        [] OTHER -> StatusInternalServerError

(***************************************************************************)
(* Byte-wise order of strings, as Go's and JavaScript's < on strings       *)
(***************************************************************************)
Byte(c) ==
    CASE c = "." -> 46
      [] c = "/" -> 47
      [] c = "O" -> 79
      [] c = "a" -> 97
      [] c = "b" -> 98
      [] c = "e" -> 101
      [] c = "f" -> 102
      [] c = "l" -> 108
      [] c = "u" -> 117
      [] c = "v" -> 118

Less(s, t) ==
    \E i \in 1..Len(t) :
        /\ i <= Len(s) + 1
        /\ \A j \in 1..(i - 1) : s[j] = t[j]
        /\ (i = Len(s) + 1 \/ Byte(s[i]) < Byte(t[i]))

SortByNameNot(fes) == fes

\* sort.Slice by Name(): names within a directory are unique, so there is
\* one sorted order
SortByName(fes) ==
    CHOOSE s \in Perms({fes[i] : i \in 1..Len(fes)}) :
        \A i, j \in 1..Len(s) : i < j => Less(Base(s[i]), Base(s[j]))

(***************************************************************************)
(* The first version of the program (main.go): a handler over os.Stat and  *)
(* os.Open, an -exclude pattern answered with NotFound, an -index file     *)
(* name, and a listing rendered by the server.                             *)
(***************************************************************************)
\* the name under the root of the file called full
RelName(full) ==
    IF full = RootDir THEN <<".">> ELSE TrimPrefix(full, RootDir \o <<"/">>)

IndexNames == {<<>>, <<"a">>}

\* fi after the best-effort resolution of fis[i]: the link's own (lstat)
\* info stays when os.Stat of the target fails.  The test written in the
\* source, fi.Mode()*os.ModeSymlink > 0, is also true of entries that are
\* no links; os.Stat of those gives the info they already have.
resolve1(fe) ==
    IF osStat(fe).err = "nil" THEN osStat(fe).kind ELSE root[fe]

RECURSIVE rows1(_, _, _)
rows1(path, fis, i) ==
    IF i > Len(fis) THEN <<>>
    ELSE LET name    == Base(fis[i])
             urlPath == Join(path, name)
         IN IF regexpMatch(hideRx, urlPath) \/ regexpMatch(excludeRx, urlPath)
            THEN rows1(path, fis, i + 1)
            ELSE <<[Name |-> IF IsDir(resolve1(fis[i]))
                             THEN name \o <<"/">> ELSE name]>>
                 \o rows1(path, fis, i + 1)

\* fis: the entries in the order Readdir returned them
serveDirectory1(w, fp, fis) ==
    LET fp2 == Join(fp, index)
        st2 == osStat(RelName(fp2))
        w2  == [w EXCEPT !.oscalls = Append(@, fp2)]
        path == IF HasSuffix(w.path, <<"/">>) THEN w.path
                ELSE w.path \o <<"/">>
    IN IF index # <<>> /\ st2.err = "nil"
       THEN ServeContent(w2, RelName(fp2), st2.kind, FALSE)
       ELSE IF index # <<>> /\ st2.err # "ErrNotExist"
       THEN httpError(w2, st2.err)
       ELSE [w EXCEPT !.status = StatusOK, !.kind = "listing",
                      !.path = path, !.fes = fis,
                      !.rows = rows1(path, SortByName(fis), 1)]

handler1(raw, fis) ==
    LET p  == <<"/">> \o TrimPrefix(Clean(raw), <<"/">>)
        fp == Join(RootDir, p)
        st == osStat(RelName(fp))
        w  == [NoResp EXCEPT !.path = p]
        w1 == [w EXCEPT !.oscalls = <<fp>>]
    IN IF regexpMatch(excludeRx, p) THEN httpError(w, "ErrNotExist")
       ELSE IF st.err # "nil" THEN httpError(w1, st.err)
       ELSE IF IsDir(st.kind) THEN serveDirectory1(w1, fp, fis)
       ELSE ServeContent(w1, RelName(fp), st.kind, TRUE)

\* the raw paths of requests in origin form
RootedStrings(n) == { s \in Strings(n) : HasPrefix(s, <<"/">>) }

Readdir1(raw) ==
    LET name == RelName(Join(RootDir, Clean(raw)))
    IN IF osStat(name).err = "nil" /\ IsDir(osStat(name).kind)
       THEN Perms(Children(name))
       ELSE {<<>>}

Init1 ==
    /\ root \in Trees
    /\ hideRx \in Patterns
    /\ excludeRx \in Patterns
    /\ index \in IndexNames
    /\ denyRx = Nil
    /\ indexRx = Nil
    /\ req = NoReq
    /\ resp = NoResp
    /\ NormIdle
    /\ ClientIdle
    /\ FormatIdle
    /\ DiskIdle
    /\ PaneIdle
    /\ FollowIdle

Request1 ==
    /\ req = NoReq
    /\ \E raw \in RootedStrings(MaxReqLen) :
         /\ req' = [raw |-> raw, query |-> <<>>, none |-> FALSE]
         /\ \E fis \in Readdir1(raw) :
              resp' \in Outcomes(handler1(raw, fis))
    /\ UNCHANGED <<root, hideRx, denyRx, indexRx, notServer>>

Next1 == Request1 \/ Return

Spec1 == Init1 /\ [][Next1]_vars

\* ---------------------------------------------------------------------
\* the directory a listing shows
ListedDir == Join(<<".">>, resp.path)

\* no pattern keeps entry e of the listed directory out of the listing
NotHidden(e) ==
    \A urlPath \in {resp.path \o <<"/">> \o Base(e), Join(resp.path, Base(e))} :
        /\ ~regexpMatch(hideRx, urlPath)
        /\ ~regexpMatch(denyRx, urlPath)
        /\ ~regexpMatch(excludeRx, urlPath)

RowNames == { resp.rows[i].Name : i \in 1..Len(resp.rows) }

\* C12: the listing of a directory that contains a symbolic link whose
\* target cannot be statted has status 200, has a row for every other entry
\* that is not hidden and has no row for the broken link.
C12_BrokenLinkOmitted ==
    (/\ Served
     /\ resp.kind = "listing"
     /\ \E e \in Children(ListedDir) : root[e] = "broken") =>
        /\ resp.status = StatusOK
        /\ \A e \in Children(ListedDir) :
              IF root[e] = "broken"
              THEN Base(e) \notin RowNames /\ Base(e) \o <<"/">> \notin RowNames
              ELSE NotHidden(e) => RowName(e) \in RowNames

(***************************************************************************)
(* The second version of the program (main.go): the same handler over      *)
(* package-level patterns; its serveDirectory sorts the entries by name    *)
(* before the loop and renders the rows on the server, in that order.      *)
(***************************************************************************)
nADot == <<"a", ".">>

\* a directory beside a file whose name is the directory's name and a
\* character that sorts before "/"
Trees2 ==
    { (nA :> "file") @@ (nB :> "dir") @@ (nBA :> "file") @@ (nBB :> "link"),
      (nA :> "dir") @@ (nADot :> "file") @@ (nB :> "file") @@ (nAB :> "link") }

\* the handler of main.go:369-421 is Server.ServeHTTP line for line;
\* serveDirectory sorts fes in place and then runs the same loop
serveDirectory2(w, q, fes) == serveDirectory(w, q, SortByName(fes))

handler2(raw, q, fes) ==
    LET p == Normalize(raw)
        f == Open(Join(<<".">>, p))
        w == ServeHTTP(raw, q, fes)
    IN IF w.kind = "error" \/ w.kind = "redirect"
          \/ ~IsDir(f.kind) \/ regexpMatch(denyRx, p)
       THEN w
       ELSE [serveDirectory2([NoResp EXCEPT !.path = p,
                                           !.names = <<Join(<<".">>, p)>>,
                                           !.oscalls = f.oscalls], q, fes)
                EXCEPT !.fes = fes]

Init2 ==
    /\ root \in Trees2
    /\ hideRx \in Patterns
    /\ denyRx \in Patterns
    /\ indexRx \in Patterns
    /\ req = NoReq
    /\ resp = NoResp
    /\ NormIdle
    /\ FirstIdle
    /\ ClientIdle
    /\ FormatIdle
    /\ DiskIdle
    /\ PaneIdle
    /\ FollowIdle

Request2 ==
    /\ req = NoReq
    /\ \E raw \in Strings(MaxReqLen), q \in Queries :
         /\ req' = [raw |-> raw, query |-> q, none |-> FALSE]
         /\ \E fes \in ReadDir(raw) :
              resp' \in Outcomes(handler2(raw, q, fes))
    /\ UNCHANGED <<root, hideRx, denyRx, indexRx, notServer>>

Next2 == Request2 \/ Return

Spec2 == Init2 /\ [][Next2]_vars

\* ---------------------------------------------------------------------
\* the name of the entry a row shows: the row's name without the "/" that
\* marks a directory
EntryName(row) ==
    IF HasSuffix(row.Name, <<"/">>)
    THEN SubSeq(row.Name, 1, Len(row.Name) - 1) ELSE row.Name

\* C13 as stated: the rows of a server-rendered listing are in strictly
\* ascending byte-wise order of the names they show, a directory's name
\* with its trailing "/".
C13_RowsAscendingByRenderedName ==
    (Served /\ resp.kind = "listing") =>
        \A i, j \in 1..Len(resp.rows) :
            i < j => Less(resp.rows[i].Name, resp.rows[j].Name)

\* C13: the rows of a server-rendered listing are in strictly ascending
\* byte-wise order of the names of their entries, without the "/" that a
\* directory's row shows.
C13_RowsAscendingByEntryName ==
    (Served /\ resp.kind = "listing") =>
        \A i, j \in 1..Len(resp.rows) :
            i < j => Less(EntryName(resp.rows[i]), EntryName(resp.rows[j]))

\* a listing of a file and a directory that ReadDir returned in descending
\* order
C13_Witness ==
    /\ Served
    /\ resp.kind = "listing"
    /\ Len(resp.rows) >= 2
    /\ \E i \in 1..Len(resp.rows) : HasSuffix(resp.rows[i].Name, <<"/">>)
    /\ \E i, j \in 1..Len(resp.fes) :
          i < j /\ Less(Base(resp.fes[j]), Base(resp.fes[i]))

(***************************************************************************)
(* The listing page (files.js): the rows the server sent, re-sorted on     *)
(* the client when a column header is clicked.                             *)
(***************************************************************************)
MaxFiles == 3
MaxSize == 1
MaxDate == 1

FileNames == {<<"a", ".">>, <<"a", "/">>, <<"b">>}

FileInfo == [name : FileNames, size : 0..MaxSize, date : 0..MaxDate]

\* the fileInfos the server can send: the rows of one directory, in the
\* order it enumerated them; no two rows have the same name
Payloads ==
    { s \in UNION {[1..k -> FileInfo] : k \in 0..MaxFiles} :
        \A i, j \in 1..Len(s) : i # j => s[i].name # s[j].name }

compareNames(x, y) ==
    IF Less(x.name, y.name) THEN -1
    ELSE IF Less(y.name, x.name) THEN 1
    ELSE 0

compareSizesNoFallback(x, y) ==
    IF x.size < y.size THEN -1
    ELSE IF x.size > y.size THEN 1
    ELSE 0

compareSizes(x, y) ==
    IF x.size < y.size THEN -1
    ELSE IF x.size > y.size THEN 1
    ELSE compareNames(x, y)

compareDates(x, y) ==
    IF x.date < y.date THEN -1
    ELSE IF x.date > y.date THEN 1
    ELSE compareNames(x, y)

\* the functions orderBy can refer to
Columns == {"compareNames", "compareSizes", "compareDates"}

Compare(f, x, y) ==
    CASE f = "compareNames" -> compareNames(x, y)
      [] f = "compareSizes" -> compareSizes(x, y)
      [] f = "compareDates" -> compareDates(x, y)

\* Array.prototype.sort with function(x, y) { return ord * by(x, y) }:
\* a stable sort, here by insertion
InsertSorted(out, x, ord, by) ==
    LET before == { i \in 1..Len(out) : ord * Compare(by, out[i], x) <= 0 }
        k == IF before = {} THEN 0
             ELSE CHOOSE i \in before : \A j \in before : j <= i
    IN SubSeq(out, 1, k) \o <<x>> \o SubSeq(out, k + 1, Len(out))

RECURSIVE ArraySort(_, _, _, _)
ArraySort(a, n, ord, by) ==
    IF n = 0 THEN <<>>
    ELSE InsertSorted(ArraySort(a, n - 1, ord, by), a[n], ord, by)

reorderFilesAscending(fi, ord, by, nextOrderBy) ==
    [order |-> 1, orderBy |-> nextOrderBy,
     fileInfos |-> ArraySort(fi, Len(fi), 1, nextOrderBy)]

\* reorderFiles(nextOrderBy) run with the globals fileInfos = fi,
\* order = ord, orderBy = by: the globals after it
reorderFiles(fi, ord, by, nextOrderBy) ==
    LET o == IF by = nextOrderBy THEN ord * (-1) ELSE 1
    IN [order |-> o, orderBy |-> nextOrderBy,
        fileInfos |-> ArraySort(fi, Len(fi), o, nextOrderBy)]

\* a property name every JavaScript object inherits from Object.prototype
nValueOf == <<"v", "a", "l", "u", "e", "O", "f">>

\* the property names of a fresh object {} that read as truthy
ObjectPrototypeNames == {nValueOf}

\* selectedFiles(): the object with a property for each checked row's name
selectedFiles(list) ==
    { list[i].name : i \in { j \in 1..Len(list) : list[j].checked } }

\* selectFiles[name] read as a condition
Truthy(files, name) == name \in files \/ name \in ObjectPrototypeNames

updateSelectAllFiles(selected, total) == selected = total /\ total > 0

\* renderFileList() with fileInfos = fi over the table rows list: the rows,
\* numSelectedFiles and the header checkbox after it
renderFileList(fi, list) ==
    LET selectFiles == selectedFiles(list)
        rows == [i \in 1..Len(fi) |->
                    [name |-> fi[i].name,
                     checked |-> Truthy(selectFiles, fi[i].name)]]
        n == Cardinality({ i \in 1..Len(rows) : rows[i].checked })
    IN [fileList |-> rows, numSelectedFiles |-> n,
        selectAllFilesChecked |-> updateSelectAllFiles(n, Len(fi))]

ClientInit ==
    /\ ClientIdle
    /\ ServerIdle
    /\ NormIdle
    /\ FormatIdle
    /\ DiskIdle
    /\ PaneIdle
    /\ FollowIdle

\* the script of the page the server rendered: fileInfos = ...;
\* reorderFiles(compareNames); for a payload out of payloads
LoadFrom(payloads) ==
    /\ orderBy = "none"
    /\ \E fi \in payloads :
         LET g == reorderFiles(fi, order, orderBy, "compareNames")
             r == renderFileList(g.fileInfos, fileList)
         IN /\ fileInfos' = g.fileInfos
            /\ order' = g.order
            /\ orderBy' = g.orderBy
            /\ fileList' = r.fileList
            /\ numSelectedFiles' = r.numSelectedFiles
            /\ selectAllFilesChecked' = r.selectAllFilesChecked
    /\ click' = [arg |-> "compareNames", n |-> 1 - click.n]
    /\ UNCHANGED <<root, hideRx, denyRx, indexRx, req, resp, nraw, nout,
                   excludeRx, index, formatVars, diskVars, paneVars, hops>>

Load == LoadFrom(Payloads)

\* a click on a column header
Click ==
    /\ orderBy # "none"
    /\ \E c \in Columns :
         LET g == reorderFiles(fileInfos, order, orderBy, c)
             r == renderFileList(g.fileInfos, fileList)
         IN /\ fileInfos' = g.fileInfos
            /\ order' = g.order
            /\ orderBy' = g.orderBy
            /\ fileList' = r.fileList
            /\ numSelectedFiles' = r.numSelectedFiles
            /\ selectAllFilesChecked' = r.selectAllFilesChecked
            /\ click' = [arg |-> c, n |-> 1 - click.n]
    /\ UNCHANGED <<root, hideRx, denyRx, indexRx, req, resp, nraw, nout,
                   excludeRx, index, formatVars, diskVars, paneVars, hops>>

ClientNext == Load \/ Click

SpecClient == ClientInit /\ [][ClientNext]_vars

\* ---------------------------------------------------------------------
\* The selection of the file table: the row checkboxes and the header
\* checkbox, over directories that may hold a file named valueOf.
SelectNames == {<<"a", ".">>, <<"b">>, nValueOf}

SelectPayloads ==
    { s \in UNION {[1..k -> [name : SelectNames, size : 0..MaxSize,
                             date : {0}]] : k \in 0..MaxFiles} :
        \A i, j \in 1..Len(s) : i # j => s[i].name # s[j].name }

LoadSelect == LoadFrom(SelectPayloads)

\* a click on the checkbox of row i: the browser toggles it, then
\* input.onclick counts
ClickFile ==
    /\ \E i \in 1..Len(fileList) :
         LET checked == ~fileList[i].checked
             n == IF checked THEN numSelectedFiles + 1
                  ELSE numSelectedFiles - 1
         IN /\ fileList' = [fileList EXCEPT ![i].checked = checked]
            /\ numSelectedFiles' = n
            /\ selectAllFilesChecked' =
                   updateSelectAllFiles(n, Len(fileInfos))
    /\ UNCHANGED <<fileInfos, order, orderBy, click>>
    /\ UNCHANGED <<root, hideRx, denyRx, indexRx, req, resp, nraw, nout,
                   excludeRx, index, formatVars, diskVars, paneVars, hops>>

\* a click on the header checkbox: the browser toggles it, then
\* selectAllFiles() copies it to every row
selectAllFiles ==
    /\ orderBy # "none"
    /\ LET selectAll == ~selectAllFilesChecked
       IN /\ selectAllFilesChecked' = selectAll
          /\ fileList' = [i \in 1..Len(fileList) |->
                             [fileList[i] EXCEPT !.checked = selectAll]]
          /\ numSelectedFiles' = IF selectAll THEN Len(fileList) ELSE 0
    /\ UNCHANGED <<fileInfos, order, orderBy, click>>
    /\ UNCHANGED <<root, hideRx, denyRx, indexRx, req, resp, nraw, nout,
                   excludeRx, index, formatVars, diskVars, paneVars, hops>>

SelectNext == LoadSelect \/ Click \/ ClickFile \/ selectAllFiles

SpecSelect == ClientInit /\ [][SelectNext]_vars

\* the names of the checked rows
SelectedNames == selectedFiles(fileList)

\* the step is a click on a column header of a rendered table
Resort == orderBy # "none" /\ click' # click

\* C30: a re-sort of the file table leaves the set of selected file names
\* unchanged, and numSelectedFiles always equals the number of checked rows.
C30_ResortKeepsSelection ==
    /\ [](numSelectedFiles =
              Cardinality({ i \in 1..Len(fileList) : fileList[i].checked }))
    /\ [][Resort => SelectedNames' = SelectedNames]_vars

\* ---------------------------------------------------------------------
\* rows i and j have equal keys in the column the rows are sorted by
SameKey(i, j) ==
    \/ orderBy = "compareSizes" /\ fileInfos[i].size = fileInfos[j].size
    \/ orderBy = "compareDates" /\ fileInfos[i].date = fileInfos[j].date

\* C14 as stated: after a re-sort by size or by modified time, two rows
\* with equal keys are in ascending name order, whatever the direction.
C14_TiesAscendingByName ==
    \A i, j \in 1..Len(fileInfos) :
        (i < j /\ SameKey(i, j)) =>
            Less(fileInfos[i].name, fileInfos[j].name)

\* C14: after a re-sort by size or by modified time, two rows with equal
\* keys are in ascending name order when the direction is ascending and in
\* descending name order when it is descending.
C14_TiesByNameInSortDirection ==
    \A i, j \in 1..Len(fileInfos) :
        (i < j /\ SameKey(i, j)) =>
            IF order = 1
            THEN Less(fileInfos[i].name, fileInfos[j].name)
            ELSE order = -1 /\ Less(fileInfos[j].name, fileInfos[i].name)

\* rows sorted by size, descending, two of them of the same size
C14_Witness ==
    /\ orderBy = "compareSizes"
    /\ order = -1
    /\ \E i, j \in 1..Len(fileInfos) : i < j /\ SameKey(i, j)

\* C15: a click on the column the rows are sorted by flips the direction,
\* a click on another column makes it the sort column, ascending; once the
\* page has loaded the direction is +1 or -1.
C15_ClickTogglesOrSwitches ==
    /\ [](orderBy # "none" => order \in {1, -1})
    /\ [][ /\ orderBy' = click'.arg
           /\ IF click'.arg = orderBy THEN order' = -order ELSE order' = 1 ]_vars

\* the second click on the size column: descending by size
C15_Witness ==
    /\ click.arg = "compareSizes"
    /\ orderBy = "compareSizes"
    /\ order = -1
    /\ Len(fileInfos) = MaxFiles

(***************************************************************************)
(* The formatters of the listing: formatSize and formatTime (main.go),     *)
(* formatSize and formatDate (format.js).  Texts are sequences of          *)
(* characters.  Times are seconds since the epoch, in a zone without       *)
(* offset.                                                                 *)
(***************************************************************************)
\* the sizes formatted: the multiples of 256 up to this many, and the
\* values one below and one above each
MaxSizeBlocks == 4100
\* the times formatted: the half hours up to this many
MaxHalfHours == 96

HalfHour == 30 * 60
TwelveHours == 12 * 60 * 60

Digit(d) ==
    CASE d = 0 -> "0" [] d = 1 -> "1" [] d = 2 -> "2" [] d = 3 -> "3"
      [] d = 4 -> "4" [] d = 5 -> "5" [] d = 6 -> "6" [] d = 7 -> "7"
      [] d = 8 -> "8" [] d = 9 -> "9"

\* the decimal text of a natural number: %d, String(n)
RECURSIVE Digits(_)
Digits(n) ==
    IF n < 10 THEN <<Digit(n)>> ELSE Digits(n \div 10) \o <<Digit(n % 10)>>

\* the loop of formatSize: how often n is divided by 1024
RECURSIVE Divisions(_)
Divisions(i) == IF i >= 1024 THEN 1 + Divisions(i \div 1024) ELSE 0

RECURSIVE Pow1024(_)
Pow1024(k) == IF k = 0 THEN 1 ELSE 1024 * Pow1024(k - 1)

\* units[0] after k divisions
Unit(k) == <<"=", "K", "M", "G", "T", "P", "E", "Z", "Y">>[k + 1]

\* i / 1024^k in tenths, rounded to nearest; a value half way between two
\* tenths goes to the even one (Go's %0.1f) or up (JavaScript's toFixed)
Tenths(i, k, halfEven) ==
    LET d == Pow1024(k)
        q == (10 * i) \div d
        r == (10 * i) % d
    IN IF 2 * r > d THEN q + 1
       ELSE IF 2 * r < d THEN q
       ELSE IF halfEven /\ q % 2 = 0 THEN q
       ELSE q + 1

OneDecimal(t) == Digits(t \div 10) \o <<".">> \o <<Digit(t % 10)>>

formatSizeText(i, halfEven) ==
    LET k == Divisions(i)
    IN IF Unit(k) = "="
       THEN Digits(i) \o <<"B">>
       ELSE OneDecimal(Tenths(i, k, halfEven)) \o <<Unit(k), "i", "B">>

\* main.go
formatSize(i) == formatSizeText(i, TRUE)

\* format.js
formatSizeJS(size) == formatSizeText(size, FALSE)

Hours(unix) == (unix \div 3600) % 24
Minutes(unix) == (unix \div 60) % 60

Pad2(n) == IF n < 10 THEN <<"0">> \o Digits(n) ELSE Digits(n)

\* "Jan 2, 2006": the times formatted all lie in January 1970
DateText(unix) ==
    <<"J", "a", "n", " ">> \o Digits(unix \div 86400 + 1)
        \o <<",", " ", "1", "9", "7", "0">>

\* time.Time.Format("3:04 PM")
KitchenText(unix) ==
    LET h == Hours(unix)
    IN Digits(IF h % 12 = 0 THEN 12 ELSE h % 12) \o <<":">>
         \o Pad2(Minutes(unix)) \o <<" ">>
         \o (IF h >= 12 THEN <<"P", "M">> ELSE <<"A", "M">>)

\* main.go
formatTime(ts, now) ==
    LET d == ts - now
    IN IF -TwelveHours < d /\ d < TwelveHours
       THEN KitchenText(ts) ELSE DateText(ts)

\* format.js, run when Date.now() is now seconds
formatDate(unix, now) ==
    LET delta  == now - unix
        pm     == Hours(unix) > 12
        label  == IF pm THEN <<"P", "M">> ELSE <<"A", "M">>
        offset == IF pm THEN 12 ELSE 0
    IN IF -TwelveHours < delta /\ delta < TwelveHours
       THEN Digits(Hours(unix) - offset) \o <<":">>
              \o Pad2(Minutes(unix)) \o <<" ">> \o label
       ELSE DateText(unix)

SizeInputs ==
    { n \in { 256 * b + d : b \in 0..MaxSizeBlocks, d \in {-1, 0, 1} } : n >= 0 }

TimeInputs == { HalfHour * k : k \in 0..MaxHalfHours }

FormatInit ==
    /\ \/ \E i \in SizeInputs : fmtIn = [what |-> "size", i |-> i]
       \/ \E ts, now \in TimeInputs :
              fmtIn = [what |-> "time", ts |-> ts, now |-> now]
    /\ fmtOut = <<>>
    /\ ServerIdle
    /\ NormIdle
    /\ ClientIdle
    /\ DiskIdle
    /\ PaneIdle
    /\ FollowIdle

FormatSize ==
    /\ fmtOut = <<>>
    /\ fmtIn.what = "size"
    /\ fmtOut' = [go |-> formatSize(fmtIn.i), js |-> formatSizeJS(fmtIn.i)]
    /\ UNCHANGED <<root, hideRx, denyRx, indexRx, req, resp, nraw, nout,
                   excludeRx, index, clientVars, fmtIn, diskVars, paneVars, hops>>

FormatTime ==
    /\ fmtOut = <<>>
    /\ fmtIn.what = "time"
    /\ fmtOut' = [go |-> formatTime(fmtIn.ts, fmtIn.now),
                  js |-> formatDate(fmtIn.ts, fmtIn.now)]
    /\ UNCHANGED <<root, hideRx, denyRx, indexRx, req, resp, nraw, nout,
                   excludeRx, index, clientVars, fmtIn, diskVars, paneVars, hops>>

FormatNext == FormatSize \/ FormatTime

SpecFormat == FormatInit /\ [][FormatNext]_vars

\* ---------------------------------------------------------------------
\* the 12-hour clock text of a time of day
ClockText(unix) ==
    Digits(((Hours(unix) + 11) % 12) + 1) \o <<":">> \o Pad2(Minutes(unix))
        \o (IF Hours(unix) < 12 THEN <<" ", "A", "M">> ELSE <<" ", "P", "M">>)

\* C16: formatTime and formatDate render a timestamp strictly within 12
\* hours of now as a 12-hour clock time H:MM AM/PM, the hour 1 to 12 without
\* leading zero and AM/PM matching the hour of the day, and every other
\* timestamp as the calendar date.
C16_ClockWithinTwelveHours ==
    (fmtOut # <<>> /\ fmtIn.what = "time") =>
        LET d == fmtIn.ts - fmtIn.now
            expected == IF -TwelveHours < d /\ d < TwelveHours
                        THEN ClockText(fmtIn.ts) ELSE DateText(fmtIn.ts)
        IN fmtOut.go = expected /\ fmtOut.js = expected

\* ---------------------------------------------------------------------
DigitValue(c) == CHOOSE d \in 0..9 : Digit(d) = c

IsDigit(c) == \E d \in 0..9 : Digit(d) = c

\* the number a text begins with, up to its first character that is no digit
RECURSIVE LeadingNumber(_, _, _)
LeadingNumber(text, i, acc) ==
    IF i > Len(text) \/ ~IsDigit(text[i]) THEN acc
    ELSE LeadingNumber(text, i + 1, 10 * acc + DigitValue(text[i]))

\* text is digits, then, for a unit other than bytes, a point and one more
\* digit, then the unit
HasSizeShape(text, i) ==
    LET n == Len(Digits(LeadingNumber(text, 1, 0)))
        rest == SubSeq(text, n + 1, Len(text))
    IN /\ SubSeq(text, 1, n) = Digits(LeadingNumber(text, 1, 0))
       /\ IF i < 1024 THEN rest = <<"B">>
          ELSE /\ Len(rest) = 5
               /\ rest[1] = "."
               /\ IsDigit(rest[2])
               /\ rest[3] \in {"K", "M", "G", "T", "P", "E", "Z", "Y"}
               /\ SubSeq(rest, 4, 5) = <<"i", "B">>

\* C17: formatSize prints a count below 1024 as an integer and "B" and any
\* other count with one decimal place and an IEC unit; 0 gives "0B", 1024
\* "1.0KiB", 1536 "1.5KiB", 1048576 "1.0MiB"; the number printed is always
\* below 1024.
C17_SizeBelow1024OfItsUnit ==
    (fmtOut # <<>> /\ fmtIn.what = "size") =>
        \A text \in {fmtOut.go, fmtOut.js} :
            /\ HasSizeShape(text, fmtIn.i)
            /\ fmtIn.i < 1024 => text = Digits(fmtIn.i) \o <<"B">>
            /\ fmtIn.i = 0 => text = <<"0", "B">>
            /\ fmtIn.i = 1024 => text = <<"1", ".", "0", "K", "i", "B">>
            /\ fmtIn.i = 1536 => text = <<"1", ".", "5", "K", "i", "B">>
            /\ fmtIn.i = 1048576 => text = <<"1", ".", "0", "M", "i", "B">>
            /\ LeadingNumber(text, 1, 0) < 1024

(***************************************************************************)
(* Package fsx: the Dir filesystem (dir.go) and the write operations on    *)
(* it (fsx.go), over a directory of the operating system.                  *)
(*                                                                         *)
(* disk maps the clean name of every entry under the root, and "." for the *)
(* root directory itself, to what is there: a directory, a regular file    *)
(* with its content, or a symbolic link whose target is in a directory     *)
(* that does not exist.                                                    *)
(***************************************************************************)
\* longest content of a file
MaxData == 1
\* the longest name an entry of the modelled directory gets
MaxNameLen == 3
\* the most symbolic links one path resolution follows
MaxLinks == 2

nDot == <<".">>
nDotDot == <<".", ".">>

DiskNames == {nDot, nA, nB, nAA, nDotDot}

Contents == UNION {[1..k -> {"x"}] : k \in 0..MaxData}

DirEntry == [kind |-> "dir", data |-> <<>>]
BrokenLink == [kind |-> "broken", data |-> <<>>]
\* a symbolic link to the entry called target
LinkTo(target) == [kind |-> "link", data |-> target]
RegularFile(data) == [kind |-> "file", data |-> data]

Disks ==
    { (nDot :> DirEntry),
      (nDot :> DirEntry) @@ (nA :> RegularFile(<<"x", "x">>)) @@ (nB :> DirEntry),
      (nDot :> DirEntry) @@ (nA :> DirEntry) @@ (nAA :> BrokenLink)
          @@ (nB :> RegularFile(<<"x">>)),
      (nDot :> DirEntry) @@ (nA :> DirEntry) @@ (nAA :> DirEntry)
          @@ (nB :> BrokenLink),
      (nDot :> DirEntry) @@ (nA :> LinkTo(nB)) @@ (nB :> DirEntry)
          @@ (nBA :> RegularFile(<<"x">>)) }

ParentOf(name) ==
    LET slashes == { j \in 1..Len(name) : name[j] = "/" }
    IN IF slashes = {} THEN nDot
       ELSE SubSeq(name, 1, (CHOOSE j \in slashes : \A k \in slashes : k <= j) - 1)

\* the entries beneath name
Beneath(d, name) ==
    IF name = nDot THEN DOMAIN d \ {nDot}
    ELSE { k \in DOMAIN d : HasPrefix(k, name \o <<"/">>) }

RECURSIVE Lookup(_, _, _, _)
RECURSIVE LookupFrom(_, _, _, _, _, _)

\* path resolution from directory cur over the elements segs[i..]: phys is
\* the entry reached or the one found missing, atLast whether the walk
\* failed at the last element
LookupFrom(d, cur, segs, i, follow, links) ==
    IF cur \notin DOMAIN d
    THEN [err |-> "ErrNotExist", phys |-> cur, atLast |-> FALSE]
    ELSE IF i > Len(segs) THEN [err |-> "nil", phys |-> cur, atLast |-> TRUE]
    ELSE IF d[cur].kind # "dir"
    THEN [err |-> "ENOTDIR", phys |-> cur, atLast |-> FALSE]
    ELSE
      LET next == IF cur = nDot THEN segs[i] ELSE cur \o <<"/">> \o segs[i]
          last == i = Len(segs)
      IN IF next \notin DOMAIN d
         THEN [err |-> "ErrNotExist", phys |-> next, atLast |-> last]
         ELSE IF last /\ ~follow
         THEN [err |-> "nil", phys |-> next, atLast |-> TRUE]
         ELSE IF d[next].kind = "broken"
         THEN [err |-> "ErrNotExist", phys |-> next, atLast |-> FALSE]
         ELSE IF d[next].kind = "link"
         THEN IF links = 0
              THEN [err |-> "ELOOP", phys |-> next, atLast |-> FALSE]
              ELSE LET t == Lookup(d, d[next].data, TRUE, links - 1)
                   IN IF t.err # "nil"
                      THEN [t EXCEPT !.atLast = last /\ t.atLast]
                      ELSE LookupFrom(d, t.phys, segs, i + 1, follow,
                                      links - 1)
         ELSE LookupFrom(d, next, segs, i + 1, follow, links)

\* path resolution of name from the root of the filesystem, following at
\* most links symbolic links, the last element's only when follow
Lookup(d, name, follow, links) ==
    LookupFrom(d, nDot, IF name = nDot THEN <<>> ELSE Split(name), 1, follow,
               links)

\* the error of resolving name: stat(2) when follow, lstat(2) otherwise
WalkErr(d, name, follow) == Lookup(d, name, follow, MaxLinks).err

\* the entry name resolves to
Phys(d, name, follow) == Lookup(d, name, follow, MaxLinks).phys

\* the error of resolving the directory an entry called name would be in
ParentErr(d, name) ==
    IF name = nDot THEN "nil"
    ELSE LET r == Lookup(d, ParentOf(name), TRUE, MaxLinks)
         IN IF r.err # "nil" THEN r.err
            ELSE IF d[r.phys].kind # "dir" THEN "ENOTDIR"
            ELSE "nil"

\* where the entry called name is or would be, its directory resolved and
\* the entry itself not followed
Entry(d, name) ==
    IF name = nDot THEN nDot
    ELSE LET dir == Phys(d, ParentOf(name), TRUE)
         IN IF dir = nDot THEN Base(name) ELSE dir \o <<"/">> \o Base(name)

Without(d, names) == [k \in DOMAIN d \ names |-> d[k]]

\* os.Remove: unlink(2), or rmdir(2) for a directory
osRemove(d, name) ==
    LET e == WalkErr(d, name, FALSE)
        p == Phys(d, name, FALSE)
    IN IF e # "nil" THEN [err |-> e, disk |-> d]
       ELSE IF d[p].kind = "dir" /\ Beneath(d, p) # {}
       THEN [err |-> "ENOTEMPTY", disk |-> d]
       ELSE [err |-> "nil", disk |-> Without(d, {p})]

\* os.Mkdir
osMkdir(d, name) ==
    IF ParentErr(d, name) # "nil" THEN [err |-> ParentErr(d, name), disk |-> d]
    ELSE IF Entry(d, name) \in DOMAIN d THEN [err |-> "ErrExist", disk |-> d]
    ELSE [err |-> "nil", disk |-> d @@ (Entry(d, name) :> DirEntry)]

\* os.OpenFile for writing; file is the file the handle is of
osOpenFile(d, name, create, trunc) ==
    LET r == Lookup(d, name, TRUE, MaxLinks)
        fail(e) == [err |-> e, disk |-> d, file |-> <<>>]
    IN IF ParentErr(d, name) # "nil" THEN fail(ParentErr(d, name))
       ELSE IF r.err = "ErrNotExist" /\ r.atLast /\ r.phys \notin DOMAIN d
       THEN IF create
            THEN [err |-> "nil", disk |-> d @@ (r.phys :> RegularFile(<<>>)),
                  file |-> r.phys]
            ELSE fail("ErrNotExist")
       ELSE IF r.err # "nil" THEN fail(r.err)
       ELSE IF d[r.phys].kind = "dir" THEN fail("EISDIR")
       ELSE [err |-> "nil",
             disk |-> IF trunc THEN [d EXCEPT ![r.phys] = RegularFile(<<>>)]
                      ELSE d,
             file |-> r.phys]

\* (*os.File).Write on a file just opened: data goes to its beginning
osWrite(d, file, data) ==
    LET old == d[file].data
    IN [d EXCEPT ![file] =
           RegularFile(data \o SubSeq(old, Len(data) + 1, Len(old)))]

\* a rename that leaves old and everything beneath it where it was
MovedKeepingOld(d, old, new) ==
    LET to == {new} \cup { new \o SubSeq(k, Len(old) + 1, Len(k)) :
                             k \in Beneath(d, old) }
        from(k) == old \o SubSeq(k, Len(new) + 1, Len(k))
    IN [k \in DOMAIN d \cup to |-> IF k \in to THEN d[from(k)] ELSE d[k]]

\* the entries of d with old and everything beneath it moved to new
Moved(d, old, new) ==
    LET gone == {old, new} \cup Beneath(d, old) \cup Beneath(d, new)
        from(k) == IF k = new THEN old
                   ELSE old \o SubSeq(k, Len(new) + 1, Len(k))
        to == {new} \cup { new \o SubSeq(k, Len(old) + 1, Len(k)) :
                             k \in Beneath(d, old) }
    IN [k \in (DOMAIN d \ gone) \cup to |->
           IF k \in to THEN d[from(k)] ELSE d[k]]

\* os.Rename: the checks of package os, then rename(2)
osRename(d, old, new) ==
    LET oldL == WalkErr(d, old, FALSE)
        newL == WalkErr(d, new, FALSE)
        pOld == Entry(d, old)
        pNew == Entry(d, new)
        fail(e) == [err |-> e, disk |-> d]
    IN IF newL = "nil" /\ d[Phys(d, new, FALSE)].kind = "dir"
       THEN IF oldL # "nil" THEN fail(oldL) ELSE fail("ErrExist")
       ELSE IF ParentErr(d, old) # "nil" THEN fail(ParentErr(d, old))
       ELSE IF ParentErr(d, new) # "nil" THEN fail(ParentErr(d, new))
       ELSE IF pOld \notin DOMAIN d THEN fail("ErrNotExist")
       ELSE IF pOld = pNew THEN [err |-> "nil", disk |-> d]
       ELSE IF d[pOld].kind = "dir"
               /\ (pOld = nDot \/ HasPrefix(pNew, pOld \o <<"/">>))
       THEN fail("EINVAL")
       ELSE IF d[pOld].kind = "dir" /\ pNew \in DOMAIN d THEN fail("ENOTDIR")
       ELSE [err |-> "nil", disk |-> Moved(d, pOld, pNew)]

(***************************************************************************)
(* dirFS and the functions of package fsx                                  *)
(***************************************************************************)
dirFS_Stat(d, name) ==
    IF join(name).err # "nil" THEN [err |-> join(name).err, kind |-> "none"]
    ELSE IF WalkErr(d, name, TRUE) # "nil"
    THEN [err |-> WalkErr(d, name, TRUE), kind |-> "none"]
    ELSE [err |-> "nil", kind |-> d[Phys(d, name, TRUE)].kind]

dirFS_OpenFile(d, name, create, trunc) ==
    IF join(name).err # "nil"
    THEN [err |-> join(name).err, disk |-> d, file |-> <<>>]
    ELSE osOpenFile(d, name, create, trunc)

dirFS_MakeDir(d, name) ==
    IF join(name).err # "nil" THEN [err |-> join(name).err, disk |-> d]
    ELSE osMkdir(d, name)

dirFS_Rename(d, oldName, newName) ==
    IF join(oldName).err # "nil" THEN [err |-> join(oldName).err, disk |-> d]
    ELSE IF join(newName).err # "nil"
    THEN [err |-> join(newName).err, disk |-> d]
    ELSE osRename(d, oldName, newName)

dirFS_Remove(d, name) ==
    IF join(name).err # "nil" THEN [err |-> join(name).err, disk |-> d]
    ELSE osRemove(d, name)

\* cmp.Or on errors
cmpOr(e1, e2) == IF e1 # "nil" THEN e1 ELSE e2

WriteFileNoTruncate(d, name, data) ==
    LET f == dirFS_OpenFile(d, name, TRUE, FALSE)
    IN IF f.err # "nil" THEN [err |-> f.err, disk |-> f.disk]
       ELSE [err |-> "nil", disk |-> osWrite(f.disk, f.file, data)]

\* Dir implements OpenFileFS, MakeDirFS, RenameFS and RemoveFS, and an
\* *os.File is an io.Writer
WriteFile(d, name, data) ==
    LET f == dirFS_OpenFile(d, name, TRUE, TRUE)
    IN IF f.err # "nil" THEN [err |-> f.err, disk |-> f.disk]
       ELSE [err |-> "nil", disk |-> osWrite(f.disk, f.file, data)]

MakeDir(d, name) == dirFS_MakeDir(d, name)

Rename(d, oldName, newName) == dirFS_Rename(d, oldName, newName)

Remove(d, name) == dirFS_Remove(d, name)

\* fs.ReadFile: dirFS.Open, then the whole content
ReadFile(d, name) ==
    LET e == IF join(name).err # "nil" THEN join(name).err
             ELSE WalkErr(d, name, TRUE)
    IN IF e # "nil" THEN [err |-> e, out |-> <<>>]
       ELSE IF d[Phys(d, name, TRUE)].kind = "dir"
       THEN [err |-> "EISDIR", out |-> <<>>]
       ELSE [err |-> "nil", out |-> d[Phys(d, name, TRUE)].data]

\* fs.ReadDir: the entries of the directory name resolves to, sorted by
\* name
SortedChildren(d, name) ==
    LET dir == Phys(d, name, TRUE)
    IN SortByName(
           CHOOSE s \in Perms({ k \in Beneath(d, dir) : ParentOf(k) = dir }) :
               TRUE)

RECURSIVE RemoveAll(_, _)
RECURSIVE RemoveChildren(_, _, _, _, _)

\* the loop of RemoveAll over fes, from entry i on
RemoveChildren(d, name, fes, i, firstErr) ==
    IF i > Len(fes) THEN [err |-> firstErr, disk |-> d]
    ELSE LET childName == Join(name, Base(fes[i]))
             r == RemoveAll(d, childName)
         IN RemoveChildren(r.disk, name, fes, i + 1, cmpOr(firstErr, r.err))

RemoveAll(d, name) ==
    LET fi == dirFS_Stat(d, name)
    IN IF fi.err # "nil"
       THEN [err |-> IF fi.err = "ErrNotExist" THEN "nil" ELSE fi.err,
             disk |-> d]
       ELSE LET r  == IF IsDir(fi.kind)
                      THEN RemoveChildren(d, name, SortedChildren(d, name), 1,
                                          "nil")
                      ELSE [err |-> "nil", disk |-> d]
                rm == Remove(r.disk, name)
            IN [err |-> cmpOr(r.err, rm.err), disk |-> rm.disk]

NoPrev == [name |-> <<>>, data |-> <<>>, present |-> FALSE, had |-> <<>>,
           none |-> TRUE]

\* what the operation after this one is told about it: the file a
\* successful WriteFile wrote, and what was there before
PrevOf(op) ==
    IF op.op = "WriteFile" /\ op.err = "nil"
    THEN [name |-> op.name, data |-> op.data,
          present |-> WalkErr(op.before, op.name, TRUE) = "nil",
          had |-> IF WalkErr(op.before, op.name, TRUE) = "nil"
                  THEN op.before[Phys(op.before, op.name, TRUE)].data
                  ELSE <<>>,
          none |-> FALSE]
    ELSE NoPrev

NoOp == [op |-> "none", name |-> <<>>, new |-> <<>>, data |-> <<>>,
         err |-> "nil", out |-> <<>>, before |-> <<>>, prev |-> NoPrev]

DiskInit ==
    /\ disk \in Disks
    /\ fsOp = NoOp
    /\ ServerIdle
    /\ NormIdle
    /\ ClientIdle
    /\ FormatIdle
    /\ PaneIdle
    /\ FollowIdle

\* the record of operation op on name that returned r
Done(op, name, new, data, r, out) ==
    [op |-> op, name |-> name, new |-> new, data |-> data, err |-> r.err,
     out |-> out, before |-> disk,
     prev |-> IF op = "ReadFile" THEN PrevOf(fsOp) ELSE NoPrev]

notDisk == <<root, hideRx, denyRx, indexRx, req, resp, nraw, nout,
             excludeRx, index, clientVars, formatVars, paneVars, hops>>

CallWriteFile ==
    /\ \E name \in DiskNames, data \in Contents :
         LET r == WriteFile(disk, name, data)
         IN /\ disk' = r.disk
            /\ fsOp' = Done("WriteFile", name, <<>>, data, r, <<>>)
    /\ UNCHANGED notDisk

CallReadFile ==
    /\ \E name \in DiskNames :
         LET r == ReadFile(disk, name)
         IN fsOp' = Done("ReadFile", name, <<>>, <<>>, r, r.out)
    /\ UNCHANGED <<disk, notDisk>>

CallMakeDir ==
    /\ \E name \in DiskNames :
         LET r == MakeDir(disk, name)
         IN /\ disk' = r.disk
            /\ fsOp' = Done("MakeDir", name, <<>>, <<>>, r, <<>>)
    /\ UNCHANGED notDisk

CallRename ==
    /\ \E oldName \in DiskNames, newName \in DiskNames :
         LET r == Rename(disk, oldName, newName)
         IN /\ \A k \in DOMAIN r.disk : Len(k) <= MaxNameLen
            /\ disk' = r.disk
            /\ fsOp' = Done("Rename", oldName, newName, <<>>, r, <<>>)
    /\ UNCHANGED notDisk

CallRemove ==
    /\ \E name \in DiskNames :
         LET r == Remove(disk, name)
         IN /\ disk' = r.disk
            /\ fsOp' = Done("Remove", name, <<>>, <<>>, r, <<>>)
    /\ UNCHANGED notDisk

CallRemoveAll ==
    /\ \E name \in DiskNames :
         LET r == RemoveAll(disk, name)
         IN /\ disk' = r.disk
            /\ fsOp' = Done("RemoveAll", name, <<>>, <<>>, r, <<>>)
    /\ UNCHANGED notDisk

DiskNext ==
    \/ CallWriteFile
    \/ CallReadFile
    \/ CallMakeDir
    \/ CallRename
    \/ CallRemove
    \/ CallRemoveAll

SpecDisk == DiskInit /\ [][DiskNext]_vars

(***************************************************************************)
(* Properties of the functions of package fsx on a Dir filesystem          *)
(***************************************************************************)
\* ReadFile directly after a successful WriteFile of the same name
ReadsWhatWasWritten ==
    /\ fsOp.op = "ReadFile"
    /\ ~fsOp.prev.none
    /\ fsOp.prev.name = fsOp.name

\* C20: WriteFile(name, data) followed by ReadFile(name) returns exactly
\* data, whether the file was absent and is created or held other, possibly
\* longer, content and is truncated before the write.
C20_ReadFileReturnsWrittenData ==
    ReadsWhatWasWritten => fsOp.err = "nil" /\ fsOp.out = fsOp.prev.data

\* C20 witness: the file read back had held more than was written to it
C20_Witness ==
    /\ ReadsWhatWasWritten
    /\ fsOp.prev.present
    /\ Len(fsOp.prev.had) > Len(fsOp.prev.data)
    /\ fsOp.out = fsOp.prev.data

\* what name and everything beneath it are, by the name relative to name
Subtree(d, name) ==
    [k \in { SubSeq(e, Len(name) + 1, Len(e)) :
                e \in (({name} \cap DOMAIN d) \cup Beneath(d, name)) } |->
        d[name \o k]]

\* the entries Rename was called on, by where they were when it was called
RenameOld == Entry(fsOp.before, fsOp.name)
RenameNew == Entry(fsOp.before, fsOp.new)

\* C18 as stated: a successful Rename leaves no old and a new that holds
\* what old held, and Rename of an old that does not exist fails with
\* ErrNotExist and changes nothing.
C18_RenameMovesOrNotExist ==
    fsOp.op = "Rename" =>
        /\ fsOp.err = "nil" =>
               /\ RenameOld \notin DOMAIN disk
               /\ RenameNew \in DOMAIN disk
               /\ Subtree(disk, RenameNew) = Subtree(fsOp.before, RenameOld)
        /\ WalkErr(fsOp.before, fsOp.name, FALSE) # "nil" =>
               /\ fsOp.err = "ErrNotExist"
               /\ disk = fsOp.before

\* C18 amended: a successful Rename to another name leaves no old and a
\* new that is what old was, with everything beneath it; Rename of an old
\* that does not exist fails and changes nothing, with ErrNotExist when both
\* names are valid and no element of either path is a regular file.
C18_RenameToOtherNameMoves ==
    fsOp.op = "Rename" =>
        /\ fsOp.err = "nil" /\ RenameOld # RenameNew =>
               /\ RenameOld \notin DOMAIN disk
               /\ Beneath(disk, RenameOld) = {}
               /\ RenameNew \in DOMAIN disk
               /\ Subtree(disk, RenameNew) = Subtree(fsOp.before, RenameOld)
        /\ WalkErr(fsOp.before, fsOp.name, FALSE) # "nil" =>
               /\ fsOp.err # "nil"
               /\ disk = fsOp.before
               /\ (/\ ValidPath(fsOp.name)
                   /\ ValidPath(fsOp.new)
                   /\ ParentErr(fsOp.before, fsOp.name) # "ENOTDIR"
                   /\ ParentErr(fsOp.before, fsOp.new) # "ENOTDIR")
                  => fsOp.err = "ErrNotExist"

\* C18 witness: a directory with an entry in it was renamed
C18_Witness ==
    /\ fsOp.op = "Rename"
    /\ fsOp.err = "nil"
    /\ RenameOld # RenameNew
    /\ Beneath(fsOp.before, RenameOld) # {}
    /\ RenameOld \notin DOMAIN disk
    /\ Beneath(disk, RenameNew) # {}

\* C19: RemoveAll(name) removes name and everything beneath it, removing
\* everything it can, and name no longer exists when it returns nil; stated
\* for a directory whose entries are all dangling symbolic links, which
\* nothing keeps from being removed.
C19_DirectoryOfBrokenLinksRemoved ==
    (/\ fsOp.op = "RemoveAll"
     /\ fsOp.name \in DOMAIN fsOp.before
     /\ fsOp.before[fsOp.name].kind = "dir"
     /\ WalkErr(fsOp.before, fsOp.name, FALSE) = "nil"
     /\ \A k \in Beneath(fsOp.before, fsOp.name) :
            fsOp.before[k].kind = "broken")
        => fsOp.err = "nil" /\ fsOp.name \notin DOMAIN disk

(***************************************************************************)
(* The operations pane (operations.js): rows of operations with a          *)
(* checkbox each, a header checkbox, a Hide button, and the status         *)
(* callback startOperation returns for each operation                      *)
(***************************************************************************)
\* the most operations started
MaxOps == 3

\* the status texts a callback is given
StatusTexts == {"Working", "Done"}

\* the row startOperation appends, with the pending flag of its closure
NewRow == [disabled |-> TRUE, checked |-> FALSE, onclick |-> FALSE,
           text |-> "Pending", pending |-> TRUE]

\* the ids of the list's rows, in order
Shown == { opsList[i] : i \in 1..Len(opsList) }

updateSelectAllOperations(selected, finished) ==
    selected = finished /\ finished > 0

\* the callback never looks at whether the operation is still pending
UpdatedNoPendingCheck(row, status, done) ==
    IF done
    THEN [row |-> [row EXCEPT !.text = status, !.disabled = FALSE,
                                !.onclick = TRUE, !.pending = FALSE],
          finishes |-> TRUE]
    ELSE [row |-> [row EXCEPT !.text = status], finishes |-> FALSE]

\* the row and closure after the callback ran with (status, done), and
\* whether it took the branch that moves the operation to finished
Updated(row, status, done) ==
    IF done /\ row.pending
    THEN [row |-> [row EXCEPT !.text = status, !.disabled = FALSE,
                                !.onclick = TRUE, !.pending = FALSE],
          finishes |-> TRUE]
    ELSE [row |-> [row EXCEPT !.text = status], finishes |-> FALSE]

\* select-all that checks the rows of pending operations too
SelectedAllWithPending(rows, selectAll) ==
    [id \in DOMAIN rows |-> [rows[id] EXCEPT !.checked = selectAll]]

\* the rows after the loop of selectAllOperations; rows not in the list
\* are not visited
SelectedAll(rows, selectAll) ==
    [id \in DOMAIN rows |->
        IF id \in Shown /\ ~rows[id].disabled
        THEN [rows[id] EXCEPT !.checked = selectAll]
        ELSE rows[id]]

\* a Hide that removes no row
KeptAll(list, rows) == list

\* the list after the loop of hideSelectedOperations
RECURSIVE Kept(_, _)
Kept(list, rows) ==
    IF list = <<>> THEN <<>>
    ELSE IF rows[Head(list)].checked THEN Kept(Tail(list), rows)
    ELSE <<Head(list)>> \o Kept(Tail(list), rows)

PaneInit ==
    /\ opsList = <<>>
    /\ ops = <<>>
    /\ numPendingOperations = 0
    /\ numSelectedOperations = 0
    /\ numFinishedOperations = 0
    /\ selectAllOperationsChecked = FALSE
    /\ operationsDisplay = "none"
    /\ paneOp = [act |-> "load", id |-> 0, done |-> FALSE, was |-> NewRow]
    /\ ServerIdle
    /\ NormIdle
    /\ ClientIdle
    /\ FormatIdle
    /\ DiskIdle
    /\ FollowIdle

notPane == <<root, hideRx, denyRx, indexRx, req, resp, nraw, nout,
             excludeRx, index, clientVars, formatVars, diskVars, hops>>

startOperation ==
    /\ Len(ops) < MaxOps
    /\ operationsDisplay' = ""
    /\ ops' = Append(ops, NewRow)
    /\ opsList' = Append(opsList, Len(ops) + 1)
    /\ numPendingOperations' = numPendingOperations + 1
    /\ selectAllOperationsChecked' =
           updateSelectAllOperations(numSelectedOperations,
                                     numFinishedOperations)
    /\ paneOp' = [act |-> "startOperation", id |-> Len(ops) + 1,
                  done |-> FALSE, was |-> NewRow]
    /\ UNCHANGED <<numSelectedOperations, numFinishedOperations, notPane>>

\* the callback of operation id, called with (status, done); the
\* operation's row may have been hidden since
StatusUpdate ==
    \E id \in DOMAIN ops, status \in StatusTexts, done \in BOOLEAN :
        LET u == Updated(ops[id], status, done)
            finishes == u.finishes
        IN /\ ops' = [ops EXCEPT ![id] = u.row]
           /\ numPendingOperations' =
                  IF finishes THEN numPendingOperations - 1
                  ELSE numPendingOperations
           /\ numFinishedOperations' =
                  IF finishes THEN numFinishedOperations + 1
                  ELSE numFinishedOperations
           /\ selectAllOperationsChecked' =
                  IF finishes
                  THEN updateSelectAllOperations(numSelectedOperations,
                                                 numFinishedOperations + 1)
                  ELSE selectAllOperationsChecked
           /\ paneOp' = [act |-> "update", id |-> id, done |-> done,
                         was |-> ops[id]]
           /\ UNCHANGED <<opsList, numSelectedOperations, operationsDisplay,
                          notPane>>

\* a click on the checkbox of a row: a disabled checkbox takes no click
ClickCheckbox ==
    \E id \in Shown :
        /\ ~ops[id].disabled
        /\ ops' = [ops EXCEPT ![id].checked = ~ops[id].checked]
        /\ numSelectedOperations' =
               IF ~ops[id].onclick THEN numSelectedOperations
               ELSE IF ~ops[id].checked THEN numSelectedOperations + 1
               ELSE numSelectedOperations - 1
        /\ selectAllOperationsChecked' =
               IF ops[id].onclick
               THEN updateSelectAllOperations(numSelectedOperations',
                                              numFinishedOperations)
               ELSE selectAllOperationsChecked
        /\ paneOp' = [act |-> "click", id |-> id, done |-> FALSE,
                      was |-> ops[id]]
        /\ UNCHANGED <<opsList, numPendingOperations, numFinishedOperations,
                       operationsDisplay, notPane>>

\* a click on the header checkbox, which then calls selectAllOperations
selectAllOperations ==
    LET selectAll == ~selectAllOperationsChecked
        rows == SelectedAll(ops, selectAll)
    IN /\ selectAllOperationsChecked' = selectAll
       /\ ops' = rows
       /\ numSelectedOperations' =
              IF selectAll THEN Cardinality({ id \in Shown : ~ops[id].disabled }) ELSE 0
       /\ paneOp' = [act |-> "selectAll", id |-> 0, done |-> selectAll,
                     was |-> NewRow]
       /\ UNCHANGED <<opsList, numPendingOperations, numFinishedOperations,
                      operationsDisplay, notPane>>

\* a click on the Hide button
hideSelectedOperations ==
    LET removed == Cardinality({ id \in Shown : ops[id].checked })
    IN /\ opsList' = Kept(opsList, ops)
       /\ numSelectedOperations' = numSelectedOperations - removed
       /\ numFinishedOperations' = numFinishedOperations - removed
       /\ selectAllOperationsChecked' =
              updateSelectAllOperations(numSelectedOperations',
                                        numFinishedOperations')
       /\ operationsDisplay' =
              IF numPendingOperations + numFinishedOperations' = 0
              THEN "none" ELSE operationsDisplay
       /\ paneOp' = [act |-> "hide", id |-> removed, done |-> FALSE,
                     was |-> NewRow]
       /\ UNCHANGED <<ops, numPendingOperations, notPane>>

PaneNext ==
    \/ startOperation
    \/ StatusUpdate
    \/ ClickCheckbox
    \/ selectAllOperations
    \/ hideSelectedOperations

SpecPane == PaneInit /\ [][PaneNext]_vars

(***************************************************************************)
(* Properties of the operations pane                                       *)
(***************************************************************************)
Checked(id) == ops[id].checked
Finished(id) == ~ops[id].pending

\* C21: the number of selected operations never exceeds the number of
\* finished operations, and every selected row is a finished row, never a
\* pending one.
C21_SelectedAreFinished ==
    /\ numSelectedOperations <= numFinishedOperations
    /\ Cardinality({ id \in Shown : Checked(id) })
           <= Cardinality({ id \in Shown : Finished(id) })
    /\ \A id \in Shown : Checked(id) => Finished(id)

\* C21 witness: select-all checked every finished row next to a pending one
C21_Witness ==
    /\ paneOp.act = "selectAll"
    /\ paneOp.done
    /\ numSelectedOperations = numFinishedOperations
    /\ numSelectedOperations > 1
    /\ \E id \in Shown : ~Finished(id)

\* C22: numPendingOperations + numFinishedOperations is the number of
\* operation rows shown.
C22_PendingPlusFinishedIsRows ==
    numPendingOperations + numFinishedOperations = Len(opsList)

\* C22 witness: Hide removed rows and left both a pending and a finished one
C22_Witness ==
    /\ paneOp.act = "hide"
    /\ paneOp.id > 0
    /\ numPendingOperations > 0
    /\ numFinishedOperations > 0

RowState(rows, id) ==
    IF rows[id].pending THEN "Pending"
    ELSE IF rows[id].checked THEN "FinishedSelected"
    ELSE "FinishedUnselected"

RowTransitions ==
    { <<"Pending", "FinishedUnselected">>,
      <<"FinishedUnselected", "FinishedSelected">>,
      <<"FinishedSelected", "FinishedUnselected">> }

\* C23: a row changes state only from Pending to Finished-Unselected and
\* between Finished-Unselected and Finished-Selected; the checkbox of a
\* pending row is never toggled; a 'done' update of an operation that is
\* already finished changes no counter.
C23_RowTransitions ==
    [][/\ \A id \in DOMAIN ops :
            /\ \/ RowState(ops', id) = RowState(ops, id)
               \/ <<RowState(ops, id), RowState(ops', id)>> \in RowTransitions
            /\ ops[id].pending => ops'[id].checked = ops[id].checked
       /\ (paneOp'.act = "update" /\ paneOp'.done /\ ~paneOp'.was.pending)
              => UNCHANGED <<numPendingOperations, numSelectedOperations,
                             numFinishedOperations>>]_vars

\* C23 witness: a finished operation was reported done once more
C23_Witness ==
    /\ paneOp.act = "update"
    /\ paneOp.done
    /\ ~paneOp.was.pending
    /\ paneOp.was.checked

(***************************************************************************)
(* Further properties of the server                                        *)
(***************************************************************************)
\* the names handed to the root filesystem while the request was handled
NamesUsed == { resp.names[i] : i \in 1..Len(resp.names) }

\* the requested directory is enumerated: it exists, was requested with its
\* slash and is not denied
Enumerated ==
    /\ Served
    /\ ReqIsDir
    /\ HasSuffix(ReqPath, <<"/">>)
    /\ ~regexpMatch(denyRx, ReqPath)

\* C24: when several entries of one directory match the index pattern,
\* exactly one is honored: the first matching, non-hidden entry in
\* enumeration order is handed to content delivery, and no later entry is
\* opened, served or listed for that request.
C24_OnlyFirstIndexEntryHonored ==
    \A i \in 1..Len(resp.fes) :
        (/\ Enumerated
         /\ Eligible(resp.fes[i])
         /\ \A j \in 1..(i - 1) : ~Eligible(resp.fes[j]))
        => /\ resp.kind \in {"content", "dirhandle"}
           /\ resp.file = resp.fes[i]
           /\ ~resp.allowRedirect
           /\ resp.rows = <<>>
           /\ \A j \in (i + 1)..Len(resp.fes) :
                  entryName(ReqPath, resp.fes[j]) \notin NamesUsed

\* C24 witness: two entries of the directory match index and neither is
\* hidden; the first enumerated was served, the second never touched
C24_Witness ==
    /\ Enumerated
    /\ Len(resp.fes) = 2
    /\ Eligible(resp.fes[1])
    /\ Eligible(resp.fes[2])
    /\ IsSymlink(root[resp.fes[2]])
    /\ resp.kind = "content"
    /\ resp.file = resp.fes[1]
    /\ entryName(ReqPath, resp.fes[2]) \notin NamesUsed

\* C25: every file or directory handle opened while handling a request,
\* the requested entry's and the index entry's, is closed by the time the
\* handler returns, on every exit path.
C25_HandlesClosedOnReturn ==
    Served =>
        /\ Len(resp.closed) = Len(resp.opened)
        /\ \A i \in 1..Len(resp.opened) :
               Cardinality({ j \in 1..Len(resp.closed) :
                               resp.closed[j] = resp.opened[i] }) = 1

\* C25 witness: the directory and its index entry were both opened, the
\* index entry was delivered, and both handles were closed
C25_Witness ==
    /\ Served
    /\ resp.kind = "content"
    /\ Len(resp.opened) = 2
    /\ resp.closed = <<resp.opened[2], resp.opened[1]>>

\* the normalized path under which a direct request for entry e reaches the
\* pattern tests: with a trailing slash exactly when e is a directory
DirectPath(e) ==
    IF IsDir(Open(e).kind) THEN <<"/">> \o e \o <<"/">> ELSE <<"/">> \o e

\* C26: for every entry of a directory, the string tested against the
\* hide, deny and index patterns while the directory is listed is the
\* normalized path tested when the entry is requested directly, so each
\* pattern classifies the entry the same way in the listing and on direct
\* access.
C26_ListingClassifiesAsDirectAccess ==
    \A i \in 1..Len(resp.fes) :
        (Enumerated /\ Open(resp.fes[i]).err = "nil") =>
            \A rx \in {hideRx, denyRx, indexRx} :
                regexpMatch(rx, entryURLPath(ReqPath, resp.fes[i]))
                    = regexpMatch(rx, DirectPath(resp.fes[i]))

(***************************************************************************)
(* A client that follows the server's redirects: each 301 Location is      *)
(* resolved against the URL just requested and requested in turn, against  *)
(* the same tree                                                           *)
(***************************************************************************)
\* the most redirects a client follows before it gives up
MaxHops == 6

Follow ==
    /\ req # NoReq
    /\ resp.kind = "redirect"
    /\ RawIsRooted
    /\ hops < MaxHops
    /\ req' = [raw |-> RedirectTarget,
               query |-> LocationQuery(resp.location), none |-> FALSE]
    /\ \E fes \in ReadDir(RedirectTarget) :
          resp' \in Outcomes(ServeHTTP(RedirectTarget,
                                       LocationQuery(resp.location), fes))
    /\ hops' = hops + 1
    /\ UNCHANGED <<root, hideRx, denyRx, indexRx, nraw, nout, excludeRx,
                   index, clientVars, formatVars, diskVars, paneVars>>

\* the client is done with the response, or gave up
Leave ==
    /\ req # NoReq
    /\ req' = NoReq
    /\ resp' = NoResp
    /\ hops' = 0
    /\ UNCHANGED <<root, hideRx, denyRx, indexRx, nraw, nout, excludeRx,
                   index, clientVars, formatVars, diskVars, paneVars>>

FollowNext == Request \/ Follow \/ Leave

SpecFollow == Init /\ [][FollowNext]_vars

\* C27: starting from any request and following each 301 Location, resolved
\* against the requested URL, a response that is not a redirect is reached
\* after a bounded number of redirects: no chain of trailing-slash
\* corrections and index redirects goes on past the third.
C27_RedirectsEnd ==
    (Served /\ resp.kind = "redirect") => hops < 3

\* C27 witness: a file requested with a trailing slash was redirected to
\* its name, from there as an index file to "./", and the directory answered
C27_Witness ==
    /\ Served
    /\ hops = 2
    /\ resp.kind \in {"listing", "content"}
    /\ ReqIsDir

\* C28: an entry whose full URL path matches hide or deny is never served
\* as a directory's index, even when it also matches the index pattern: a
\* directory request never delivers the bytes of a denied entry.
C28_DeniedNeverServedAsIndex ==
    (/\ Served
     /\ ReqIsDir
     /\ resp.kind = "content"
     /\ ~resp.allowRedirect)
    => ~regexpMatch(denyRx, DirectPath(resp.file))

\* the entries RemoveAll removed
Removed == DOMAIN fsOp.before \ DOMAIN disk

\* C29: RemoveAll(name) removes only entries inside the subtree named by
\* name: it never deletes the contents of a directory that is only the
\* target of a symbolic link found at or below name.
C29_RemoveAllStaysInSubtree ==
    (fsOp.op = "RemoveAll" /\ ValidPath(fsOp.name)) =>
        Removed \subseteq
            {Entry(fsOp.before, fsOp.name)}
                \cup Beneath(fsOp.before, Entry(fsOp.before, fsOp.name))

====
